---- MODULE Spec2Model ----
(***************************************************************************)
(* Model of the bam-utility-plugins validation utilities:                  *)
(*   - the predicate library (isEmpty and its helpers, isTextIncludes),    *)
(*   - the built-in validator functions (validate.ts),                     *)
(*   - the Validator engine (validate, validateField, setValidatorHandler, *)
(*     errorsToArray, getErrors, isValid).                                 *)
(*                                                                         *)
(* JavaScript values are tagged records [t |-> <typeof-like tag>, ...].    *)
(* Strings that the code inspects character by character are sequences of  *)
(* one-character strings; opaque strings (messages, names) are TLA+        *)
(* strings.                                                                *)
(*                                                                         *)
(* Specifications:                                                         *)
(*   Spec        the engine: MaxCalls validate() calls on three instances, *)
(*               interleaved at their awaits with each other and with up   *)
(*               to MaxRegs setValidatorHandler() calls;                   *)
(*   SpecOverlap the same engine with OverlapCalls validate() calls;       *)
(*   SpecEmpty   isEmpty applied to one value;                             *)
(*   SpecImage   imageValidator applied to one value and option.           *)
(* A step of the engine is what runs between two awaits: JavaScript runs   *)
(* it to completion before any other code.                                 *)
(***************************************************************************)
EXTENDS Integers, Sequences, FiniteSets, TLC

VARIABLES
    validatorHandler,  \* the module-level validator table (validate.ts:146)
    errors,            \* this.errors of each Validator instance (validate.ts:172)
    insts,             \* model and validateOption of each instance (validate.ts:170-171)
    calls,             \* the validate() calls: position, locals, result
    regs,              \* history: the setValidatorHandler calls made so far
    lastAssign,        \* history: per instance, the last `errors[key] = ...` of any call
    emptyArg,          \* argument of a call of isEmpty
    emptyRet,          \* its return value, once it has returned
    imageArg,          \* arguments and collaborator answers of a call of imageValidator
    imageRet           \* its resolved value and the warnings it logged

vars == <<validatorHandler, errors, insts, calls, regs, lastAssign,
          emptyArg, emptyRet, imageArg, imageRet>>

engineVars == <<validatorHandler, errors, insts, calls, regs, lastAssign>>
emptyVars == <<emptyArg, emptyRet>>
imageVars == <<imageArg, imageRet>>

----------------------------------------------------------------------------
(* Bounds *)

\* longest string, array and property list given to isEmpty
MaxLen == 2
\* largest image dimension / dimension bound / byte size given to imageValidator
MaxDim == 2
\* number of validate() calls of a run
MaxCalls == 1
\* number of validate() calls of a run with overlapping calls
OverlapCalls == 2
\* number of setValidatorHandler() calls
MaxRegs == 2

----------------------------------------------------------------------------
(* JavaScript values *)

Undefined == [t |-> "undefined"]
NullV == [t |-> "null"]
Num(n) == [t |-> "number", nan |-> FALSE, n |-> n]
NaN == [t |-> "number", nan |-> TRUE, n |-> 0]
StrV(s) == [t |-> "string", s |-> s]
BoolV(b) == [t |-> "boolean", b |-> b]
ArrV(e) == [t |-> "array", e |-> e]
\* plain: value.constructor === Object; props: own enumerable properties in order
ObjV(plain, props) == [t |-> "object", plain |-> plain, props |-> props]
BlobV(size, type) == [t |-> "blob", size |-> size, type |-> type]
FnV == [t |-> "function"]

\* Boolean(v)
Truthy(v) ==
    CASE v.t = "undefined" -> FALSE
      [] v.t = "null" -> FALSE
      [] v.t = "number" -> ~v.nan /\ v.n # 0
      [] v.t = "string" -> Len(v.s) > 0
      [] v.t = "boolean" -> v.b
      [] OTHER -> TRUE

\* elements joined by commas
RECURSIVE Join(_)
Join(parts) ==
    IF parts = <<>> THEN <<>>
    ELSE IF Len(parts) = 1 THEN Head(parts)
    ELSE Head(parts) \o <<",">> \o Join(Tail(parts))

\* JSON.stringify(v) as a sequence of tokens. undefined and functions are
\* dropped from objects and written as null inside arrays; NaN is written as
\* null; a Blob has no own enumerable property.
RECURSIVE JSONStringify(_)
JSONStringify(v) ==
    LET Serializable(p) == p.v.t \notin {"undefined", "function"}
        Elem(x) == IF x.t \in {"undefined", "function"} THEN <<"null">>
                   ELSE JSONStringify(x)
        Prop(p) == <<"\"", p.k, "\"", ":">> \o JSONStringify(p.v)
    IN CASE v.t = "null" -> <<"null">>
         [] v.t = "number" -> IF v.nan THEN <<"null">> ELSE <<ToString(v.n)>>
         [] v.t = "string" -> <<"\"">> \o v.s \o <<"\"">>
         [] v.t = "boolean" -> IF v.b THEN <<"true">> ELSE <<"false">>
         [] v.t = "array" ->
              <<"[">> \o Join([i \in 1..Len(v.e) |-> Elem(v.e[i])]) \o <<"]">>
         [] v.t = "object" ->
              LET kept == SelectSeq(v.props, Serializable)
              IN <<"{">> \o Join([i \in 1..Len(kept) |-> Prop(kept[i])]) \o <<"}">>
         [] v.t = "blob" -> <<"{", "}">>
         [] OTHER -> <<>>

----------------------------------------------------------------------------
(* Predicate library *)

Whitespace == {" ", "\n"}

\* value.filter(Boolean) is SelectSeq(value.e, Truthy)
isArrayEmpty(value) ==
    value.t = "array" /\ JSONStringify(ArrV(SelectSeq(value.e, Truthy))) = <<"[", "]">>

\* typeof value === 'object' && value !== null
TypeofObject(value) == value.t \in {"object", "array", "blob"}

\* value.constructor === Object
ConstructorIsObject(value) == value.t = "object" /\ value.plain

isObjectEmpty(value) ==
    TypeofObject(value) /\ ConstructorIsObject(value)
    /\ JSONStringify(value) = <<"{", "}">>

isBlobEmpty(value) ==
    value.t = "blob" /\ (value.size = 0 \/ value.type = <<>>)

\* /^\s*$/.test(value)
isStringEmpty(value) ==
    value.t = "string" /\ \A i \in 1..Len(value.s) : value.s[i] \in Whitespace

isNumberEmpty(value) ==
    value.t = "number" /\ value.nan

isEmpty(value) ==
    IF value = Undefined THEN TRUE
    ELSE IF value = NullV THEN TRUE
    ELSE IF isNumberEmpty(value) THEN TRUE
    ELSE IF isStringEmpty(value) THEN TRUE
    ELSE IF isArrayEmpty(value) THEN TRUE
    ELSE IF isObjectEmpty(value) THEN TRUE
    ELSE IF isBlobEmpty(value) THEN TRUE
    ELSE FALSE

\* new RegExp(String(pattern)).test(text), for a pattern without regular
\* expression metacharacters: the pattern occurs somewhere in the text
RegExpTest(pattern, text) ==
    \E i \in 0..Len(text) :
        /\ i + Len(pattern) <= Len(text)
        /\ \A j \in 1..Len(pattern) : text[i + j] = pattern[j]

RECURSIVE isTextIncludes(_, _)
isTextIncludes(data, text) ==
    IF data = <<>> THEN FALSE
    ELSE IF RegExpTest(Head(data), text) THEN TRUE
    ELSE isTextIncludes(Tail(data), text)

----------------------------------------------------------------------------
(* isEmpty, applied to one value *)

Chars == {" ", "\n", "a"}

\* sequences over S of length at most n
SeqsUpTo(S, n) == UNION {[1..k -> S] : k \in 0..n}

Scalars ==
    {Undefined, NullV, NaN, Num(0), Num(1), BoolV(FALSE), BoolV(TRUE), FnV,
     StrV(<<>>), StrV(<<"a">>)}

PropKeys == {"a", "b"}

\* property lists: distinct keys, in insertion order
PropLists ==
    {ps \in SeqsUpTo([k : PropKeys, v : {Undefined, NullV, Num(0), StrV(<<>>), FnV}], MaxLen) :
        \A i, j \in 1..Len(ps) : i # j => ps[i].k # ps[j].k}

EmptyInputs ==
    Scalars
    \cup {StrV(s) : s \in SeqsUpTo(Chars, MaxLen)}
    \cup {ArrV(e) : e \in SeqsUpTo(Scalars \cup {ArrV(<<>>), ObjV(TRUE, <<>>)}, MaxLen)}
    \cup {ObjV(plain, ps) : plain \in BOOLEAN, ps \in PropLists}
    \cup {BlobV(size, type) : size \in 0..1, type \in {<<>>, <<"a">>}}

InitEmpty ==
    /\ emptyArg \in EmptyInputs
    /\ emptyRet = [done |-> FALSE, value |-> FALSE]

CallIsEmpty ==
    /\ ~emptyRet.done
    /\ emptyRet' = [done |-> TRUE, value |-> isEmpty(emptyArg)]
    /\ UNCHANGED emptyArg

----------------------------------------------------------------------------
(* Validator results: StringResult = string | string[] | null *)

Null == [kind |-> "null", msgs |-> <<>>]
Str(s) == [kind |-> "str", msgs |-> <<s>>]
List(l) == [kind |-> "list", msgs |-> l]

\* errors.length ? errors : null
ListOrNull(errs) == IF Len(errs) > 0 THEN List(errs) ELSE Null

----------------------------------------------------------------------------
(* imageValidator *)

ImageChecks == {"minWidth", "maxWidth", "minHeight", "maxHeight", "size", "type"}

\* optionDefault.messageOption[k]
DefaultMessage(k) == [of |-> k, custom |-> FALSE]

\* opt.messageOption?.[k]: a custom message, or undefined (FALSE)
CustomMessage(opt, k) ==
    IF k \in opt.messageOption THEN [of |-> k, custom |-> TRUE] ELSE [of |-> "", custom |-> FALSE]

\* opt.messageOption?.[k] || optionDefault.messageOption[d]
MessageOr(opt, k, d) ==
    IF CustomMessage(opt, k).of # "" THEN CustomMessage(opt, k) ELSE DefaultMessage(d)

ImageType == <<"i", "m", "a", "g", "e">>

optionDefault ==
    [messageOption |-> {}, minWidth |-> 0, maxWidth |-> 0, minHeight |-> 0,
     maxHeight |-> 0, size |-> Num(0), type |-> StrV(ImageType)]

\* file-size parser: a number is its own byte count, anything else is NaN
transformFileSize(size) == IF size.t = "number" THEN size ELSE NaN

ToLowerCase(c) ==
    CASE c = "A" -> "a" [] c = "B" -> "b" [] c = "P" -> "p" [] OTHER -> c

toLocaleLowerCase(str) == [i \in 1..Len(str) |-> ToLowerCase(str[i])]

\* str.split(',')
RECURSIVE Split(_)
Split(str) ==
    IF \A i \in 1..Len(str) : str[i] # "," THEN <<str>>
    ELSE LET at == CHOOSE i \in 1..Len(str) :
                      str[i] = "," /\ \A j \in 1..(i - 1) : str[j] # ","
         IN <<SubSeq(str, 1, at - 1)>> \o Split(SubSeq(str, at + 1, Len(str)))

\* the dimension checks (validate.ts:102-117); w, h: img.naturalWidth, img.naturalHeight
DimensionErrors(opt, w, h) ==
    IF opt.minWidth # 0 \/ opt.maxWidth # 0 \/ opt.minHeight # 0 \/ opt.maxHeight # 0
    THEN (IF opt.minWidth # 0 /\ opt.minWidth < w
          THEN <<MessageOr(opt, "minWidth", "maxWidth")>> ELSE <<>>)
         \o (IF opt.maxWidth # 0 /\ opt.maxWidth > w
             THEN <<MessageOr(opt, "maxWidth", "minWidth")>> ELSE <<>>)
         \o (IF opt.minHeight # 0 /\ opt.minHeight < h
             THEN <<MessageOr(opt, "minHeight", "minHeight")>> ELSE <<>>)
         \o (IF opt.maxHeight # 0 /\ opt.maxHeight > h
             THEN <<MessageOr(opt, "maxHeight", "maxHeight")>> ELSE <<>>)
    ELSE <<>>

\* the size check (validate.ts:118-127)
SizeErrors(opt, value) ==
    IF Truthy(opt.size)
    THEN LET sizeNumber == transformFileSize(opt.size)
         IN IF sizeNumber.nan THEN <<>>
            ELSE IF value.size > sizeNumber.n
                 THEN <<MessageOr(opt, "size", "size")>> ELSE <<>>
    ELSE <<>>

SizeWarnings(opt) ==
    IF Truthy(opt.size) /\ transformFileSize(opt.size).nan
    THEN <<"The option property size is not valid variable.">> ELSE <<>>

\* the type check (validate.ts:128-135)
TypeErrors(opt, value) ==
    IF Truthy(opt.type)
    THEN LET allowedTypes == IF opt.type.t = "string" THEN Split(opt.type.s) ELSE opt.type.e
             types == [i \in 1..Len(allowedTypes) |-> toLocaleLowerCase(allowedTypes[i])]
             isAllowed == isTextIncludes(types, toLocaleLowerCase(value.type))
         IN IF ~isAllowed THEN <<MessageOr(opt, "type", "type")>> ELSE <<>>
    ELSE <<>>

\* option: [present, opt]; w, h: what the decoded image reports
imageValidator(value, option, w, h) ==
    LET opt == IF option.present THEN option.opt ELSE optionDefault
    IN IF value.t = "blob"
       THEN LET errs == DimensionErrors(opt, w, h) \o SizeErrors(opt, value)
                            \o TypeErrors(opt, value)
            IN [result |-> ListOrNull(errs), warnings |-> SizeWarnings(opt)]
       ELSE [result |-> Null, warnings |-> <<"The value is not Blob object.">>]

ImagePng == ImageType \o <<"/", "p">>

ImageOptions ==
    [messageOption : {{}, {"minWidth"}, ImageChecks},
     minWidth : 0..MaxDim, maxWidth : 0..MaxDim,
     minHeight : 0..MaxDim, maxHeight : 0..MaxDim,
     size : {Undefined, Num(1), StrV(<<"a">>)},
     type : {Undefined, StrV(<<"b", ",", "i", "m">>), ArrV(<<(<<"P">>)>>)}]

ImageInputs ==
    [value : {BlobV(size, type) : size \in 0..MaxDim, type \in {ImagePng, <<"A", "b">>}}
                \cup {StrV(<<"a">>)},
     option : {[present |-> FALSE, opt |-> optionDefault]}
                \cup {[present |-> TRUE, opt |-> o] : o \in ImageOptions},
     w : 1..MaxDim, h : 1..MaxDim]

InitImage ==
    /\ imageArg \in ImageInputs
    /\ imageRet = [done |-> FALSE, result |-> Null, warnings |-> <<>>]

CallImageValidator ==
    /\ ~imageRet.done
    /\ LET r == imageValidator(imageArg.value, imageArg.option, imageArg.w, imageArg.h)
       IN imageRet' = [done |-> TRUE, result |-> r.result, warnings |-> r.warnings]
    /\ UNCHANGED imageArg

----------------------------------------------------------------------------
(* The synchronous built-in validators *)

\* a message string; '' and undefined are the falsy ones
Msg(of) == [of |-> of, custom |-> FALSE]
EmptyMsg == Msg("")

\* String(value)
ToStringJS(value) ==
    CASE value.t = "string" -> value.s
      [] value.t = "undefined" -> <<"u", "n", "d", "e", "f", "i", "n", "e", "d">>
      [] value.t = "null" -> <<"n", "u", "l", "l">>
      [] value.t = "number" -> IF value.nan THEN <<"N", "a", "N">> ELSE <<ToString(value.n)>>
      [] value.t = "blob" ->
           <<"[", "o", "b", "j", "e", "c", "t", " ", "B", "l", "o", "b", "]">>
      [] OTHER -> <<"[", "o", "b", "j", "e", "c", "t", " ", "O", "b", "j", "e", "c", "t", "]">>

Letters == {"a", "b", "c", "d", "o", "A", "B", "P"}
Digits == {"1", "2", "3"}
\* the characters the local part excludes: <>()[]\.,;:\s@"
LocalExcluded == {"<", ">", "(", ")", "[", "]", "\\", ".", ",", ";", ":", " ", "\n", "@", "\""}

\* dot-separated, non-empty runs of characters of `allowed`
DotAtoms(str, allowed) ==
    /\ Len(str) > 0
    /\ \A i \in 1..Len(str) : str[i] = "." \/ str[i] \in allowed
    /\ str[1] # "." /\ str[Len(str)] # "."
    /\ \A i \in 1..(Len(str) - 1) : ~(str[i] = "." /\ str[i + 1] = ".")

\* the e-mail pattern of validate.ts:32 on a string without '"' and '[',
\* where only its unquoted local part and DNS domain alternatives can match
EmailTest(str) ==
    \E k \in 1..Len(str) :
        /\ str[k] = "@"
        /\ LET local == SubSeq(str, 1, k - 1)
               domain == SubSeq(str, k + 1, Len(str))
           IN /\ Len(local) > 0
              /\ \A i \in 1..Len(local) : local[i] = "." \/ local[i] \notin LocalExcluded
              /\ DotAtoms(local, {local[i] : i \in 1..Len(local)})
              /\ DotAtoms(domain, Letters \cup Digits \cup {"-"})
              /\ \E p \in 1..Len(domain) :
                    /\ domain[p] = "."
                    /\ Len(domain) - p >= 2
                    /\ \A i \in (p + 1)..Len(domain) : domain[i] \in Letters

isEmptyValidator(value, option) ==
    LET opt == IF option.present THEN option.opt ELSE [message |-> EmptyMsg]
    IN IF isEmpty(value)
       THEN Str(IF opt.message # EmptyMsg THEN opt.message ELSE Msg("isEmpty")) ELSE Null

emailValidator(value, option) ==
    LET opt == IF option.present THEN option.opt ELSE [message |-> EmptyMsg]
        result == ~EmailTest(ToStringJS(value))
    IN IF result
       THEN Str(IF opt.message # EmptyMsg THEN opt.message ELSE Msg("email")) ELSE Null

PasswordMin == 6
PasswordMax == 30

\* ^(?=.*\d)(?=.*[a-zA-Z]).{min,max}$
passwordValidator(value, option) ==
    LET opt == IF option.present THEN option.opt
               ELSE [min |-> PasswordMin, max |-> PasswordMax, message |-> EmptyMsg]
        min == IF opt.min # 0 THEN opt.min ELSE PasswordMin
        max == IF opt.max # 0 THEN opt.max ELSE PasswordMax
        str == ToStringJS(value)
        result == ~(/\ \E i \in 1..Len(str) : str[i] \in Digits
                    /\ \E i \in 1..Len(str) : str[i] \in Letters
                    /\ \A i \in 1..Len(str) : str[i] # "\n"
                    /\ min <= Len(str) /\ Len(str) <= max)
    IN IF result
       THEN Str(IF opt.message # EmptyMsg THEN opt.message ELSE Msg("password")) ELSE Null

equalValidator(value, option) ==
    LET opt == IF option.present THEN option.opt
               ELSE [equal |-> StrV(<<>>), message |-> EmptyMsg]
    IN IF opt.equal # value
       THEN Str(IF opt.message # EmptyMsg THEN opt.message ELSE Msg("equal")) ELSE Null

----------------------------------------------------------------------------
(* The Validator engine *)

Insts == {"A", "B", "C"}

\* the validator names the rule sets and registrations use
Names == {"isEmpty", "email", "password", "equal", "image", "custom"}

\* functions a caller registers; each may return any of several results
CustomFns == {"fnA", "fnB"}

\* const validatorHandler = { isEmpty: isEmptyValidator, ... }
BuiltinTable ==
    [n \in Names |->
        CASE n = "isEmpty" -> "isEmptyValidator"
          [] n = "email" -> "emailValidator"
          [] n = "password" -> "passwordValidator"
          [] n = "equal" -> "equalValidator"
          [] n = "image" -> "imageValidator"
          [] OTHER -> "undefined"]

\* public readonly validatorHandler = validatorHandler: every instance's
\* field refers to the one module-level object
InstanceTable(i) == validatorHandler

\* what a call handler(value, option) may return (or resolve with)
HandlerReturns(handler, value, option) ==
    CASE handler = "isEmptyValidator" -> {isEmptyValidator(value, option)}
      [] handler = "emailValidator" -> {emailValidator(value, option)}
      [] handler = "passwordValidator" -> {passwordValidator(value, option)}
      [] handler = "equalValidator" -> {equalValidator(value, option)}
      [] handler = "imageValidator" ->
           {imageValidator(value, option, w, h).result : w, h \in 1..MaxDim}
      [] handler = "fnA" -> {Str(EmptyMsg), List(<<EmptyMsg, Msg("fnA")>>)}
      [] handler = "fnB" -> {List(<<>>), Str(Msg("fnB"))}

\* names every object inherits from Object.prototype
ObjectPrototype == {"toString"}

\* opt[key]: an own entry of the rule set, else what Object.prototype gives
\* (a function: truthy, without enumerable properties)
RuleLookup(opt, key) ==
    IF key \in DOMAIN opt.rules THEN [truthy |-> TRUE, types |-> opt.rules[key]]
    ELSE IF key \in ObjectPrototype THEN [truthy |-> TRUE, types |-> <<>>]
    ELSE [truthy |-> FALSE, types |-> <<>>]

\* for (const key in this.model): the model's keys in insertion order
ModelKeys(model) == [i \in 1..Len(model) |-> model[i].k]

\* the first index >= from of a model key the loop of validate() processes, or 0
NextField(model, opt, from) ==
    LET hits == {i \in from..Len(model) : RuleLookup(opt, ModelKeys(model)[i]).truthy}
    IN IF hits = {} THEN 0 ELSE CHOOSE i \in hits : \A j \in hits : i <= j

\* messages put in front of the list instead of behind it
PushMessagesFront(errs, r) ==
    CASE r.kind = "null" -> errs
      [] r.kind = "str" -> IF r.msgs[1] # EmptyMsg THEN r.msgs \o errs ELSE errs
      [] r.kind = "list" -> r.msgs \o errs

\* if (errorMessages) { Array.isArray ? errors.push(...errorMessages) : errors.push(errorMessages) }
PushMessages(errs, r) ==
    CASE r.kind = "null" -> errs
      [] r.kind = "str" -> IF r.msgs[1] # EmptyMsg THEN errs \o r.msgs ELSE errs
      [] r.kind = "list" -> errs \o r.msgs

\* the list returned as it is, without the filter
FieldResultUnfiltered(errs) == ListOrNull(errs)

\* const result = errors.filter((s) => s); return result.length ? result : null
FieldResult(errs) ==
    LET NonEmpty(m) == m # EmptyMsg
    IN ListOrNull(SelectSeq(errs, NonEmpty))

\* errors[key] = val on a mapping kept as a sequence of [k, v] in insertion order
Assign(map, key, val) ==
    IF \E i \in 1..Len(map) : map[i].k = key
    THEN [i \in 1..Len(map) |-> IF map[i].k = key THEN [k |-> key, v |-> val] ELSE map[i]]
    ELSE Append(map, [k |-> key, v |-> val])

Keys(map) == {map[i].k : i \in 1..Len(map)}
Get(map, key) == map[CHOOSE i \in 1..Len(map) : map[i].k = key].v
Pending == [kind |-> "pending", msgs |-> <<>>]

IdleCall ==
    [pc |-> "idle", inst |-> "A", opt |-> [present |-> FALSE, rules |-> <<>>],
     fi |-> 0, ti |-> 0, ferrs |-> <<>>, fres |-> Null, errors |-> <<>>,
     warnings |-> {}, running |-> {}, snap |-> BuiltinTable, overlapped |-> FALSE,
     trace |-> <<>>]

\* the table as it was when the call reached the field it is processing
HandlerLookupAtReach(cs, table, type) == cs.snap[type]

\* const handler = this.validatorHandler[type], evaluated when the loop
\* reaches the validator
HandlerLookup(cs, table, type) == table[type]

\* the loop of validateField from the validator after cs.ti: look the next
\* handler up and call it, or leave the loop and return
InvokeNext(cs, table) ==
    LET field == insts[cs.inst].model[cs.fi]
        types == RuleLookup(cs.opt, field.k).types
        next == cs.ti + 1
    IN IF next > Len(types)
       THEN [cs EXCEPT !.pc = "awaitField", !.fres = FieldResult(cs.ferrs)]
       ELSE LET handler == HandlerLookup(cs, table, types[next].type)
            IN IF handler = "undefined"
               \* calling undefined throws a TypeError: validateField's promise,
               \* and with it validate's, is rejected
               THEN [cs EXCEPT !.pc = "rejected"]
               ELSE [cs EXCEPT !.pc = "awaitHandler", !.ti = next,
                               !.running = @ \cup {<<cs.fi, next>>},
                               !.trace = Append(@, [key |-> field.k, type |-> types[next].type,
                                                    value |-> field.v, handler |-> handler,
                                                    atReach |-> cs.snap[types[next].type],
                                                    ret |-> Pending])]

\* the loop of validate() from model index `from`: enter validateField for
\* the next field that has a rule, or return the errors
NextFieldOrReturn(cs, from, table) ==
    LET k == NextField(insts[cs.inst].model, cs.opt, from)
    IN IF k = 0 THEN [cs EXCEPT !.pc = "resolved"]
       ELSE InvokeNext([cs EXCEPT !.fi = k, !.ti = 0, !.ferrs = <<>>, !.snap = table], table)

CallIds == DOMAIN calls

InFlight(cs) == cs.pc \in {"awaitHandler", "awaitField"}

\* the rule set as the value isEmpty() is given: undefined, or a plain object
\* with one object-valued property per field rule
RuleSetValue(opt) ==
    IF ~opt.present THEN Undefined
    ELSE LET D == DOMAIN opt.rules
             order == CHOOSE f \in [1..Cardinality(D) -> D] : {f[i] : i \in DOMAIN f} = D
         IN ObjV(TRUE, [i \in 1..Cardinality(D) |-> [k |-> order[i], v |-> ObjV(TRUE, <<>>)]])

\* validate(options), up to its first await
Validate(c, i, options) ==
    /\ calls[c].pc = "idle"
    /\ IF c = 1 THEN TRUE ELSE calls[c - 1].pc # "idle"
    /\ LET opt == IF options.present THEN options ELSE insts[i].validateOption
           warn == (IF isEmpty(ObjV(TRUE, insts[i].model))
                    THEN {"The form property is all empty."} ELSE {})
                   \cup (IF isEmpty(RuleSetValue(opt))
                         THEN {"The options property is all empty."} ELSE {})
           overlap == \E d \in CallIds : InFlight(calls[d]) /\ calls[d].inst = i
           cs == [IdleCall EXCEPT !.inst = i, !.opt = opt, !.warnings = warn,
                                  !.overlapped = overlap]
       IN calls' = [d \in CallIds |->
                      IF d = c
                      THEN IF opt.present THEN NextFieldOrReturn(cs, 1, InstanceTable(i))
                           ELSE [cs EXCEPT !.pc = "resolved"]
                      ELSE IF InFlight(calls[d]) /\ calls[d].inst = i
                           THEN [calls[d] EXCEPT !.overlapped = TRUE]
                           ELSE calls[d]]
    /\ UNCHANGED <<validatorHandler, errors, insts, regs, lastAssign>>

\* validateField resumes from `await handler(value, typeOption)` with the
\* handler's result r, pushes its messages and goes on with the loop
HandlerReturn(c) ==
    LET cs == calls[c]
        last == Len(cs.trace)
        field == insts[cs.inst].model[cs.fi]
        option == RuleLookup(cs.opt, field.k).types[cs.ti].option
    IN /\ cs.pc = "awaitHandler"
       /\ \E r \in HandlerReturns(cs.trace[last].handler, field.v, option) :
             calls' = [calls EXCEPT ![c] =
                         InvokeNext([cs EXCEPT !.running = @ \ {<<cs.fi, cs.ti>>},
                                               !.ferrs = PushMessages(@, r),
                                               !.trace[last].ret = r],
                                    InstanceTable(cs.inst))]
       /\ UNCHANGED <<validatorHandler, errors, insts, regs, lastAssign>>

\* validate resumes from `await this.validateField(...)`, assigns
\* errors[key] and goes on with the loop over the model
FieldReturn(c) ==
    LET cs == calls[c]
        key == insts[cs.inst].model[cs.fi].k
    IN /\ cs.pc = "awaitField"
       /\ calls' = [calls EXCEPT ![c] =
                      NextFieldOrReturn([cs EXCEPT !.errors = Assign(@, key, cs.fres)],
                                        cs.fi + 1, InstanceTable(cs.inst))]
       /\ lastAssign' = [lastAssign EXCEPT ![cs.inst] = Assign(@, key, cs.fres)]
       /\ UNCHANGED <<validatorHandler, errors, insts, regs>>

\* this.validatorHandler[name] = handler
SetValidatorHandler(i, name, handler) ==
    /\ regs.n < MaxRegs
    /\ validatorHandler' = [InstanceTable(i) EXCEPT ![name] = handler]
    /\ regs' = [n |-> regs.n + 1,
                by |-> [regs.by EXCEPT ![name] = @ \cup {i}],
                last |-> [regs.last EXCEPT ![name] = handler]]
    /\ UNCHANGED <<errors, insts, calls, lastAssign>>

\* Object.values(this.errors).flat().filter(p => p).map(String)
RECURSIVE Flat(_)
Flat(values) ==
    IF values = <<>> THEN <<>>
    ELSE (IF Head(values).kind = "list" THEN Head(values).msgs ELSE <<Head(values)>>)
         \o Flat(Tail(values))

errorsToArray(i) ==
    LET values == [n \in 1..Len(errors[i]) |-> errors[i][n].v]
        Kept(p) == p # Null /\ p # EmptyMsg
    IN SelectSeq(Flat(values), Kept)

\* JSON.parse(JSON.stringify(this.errors)): a fresh mapping with a fresh
\* array per field; null and arrays of strings survive the round trip
getErrors(i) ==
    [n \in 1..Len(errors[i]) |->
        [k |-> errors[i][n].k,
         v |-> IF errors[i][n].v.kind = "list"
               THEN List([m \in 1..Len(errors[i][n].v.msgs) |-> errors[i][n].v.msgs[m]])
               ELSE Null]]

\* isValid(field); field = "" stands for a call without a (truthy) field
isValid(i, field) ==
    IF field # ""
    THEN field \in Keys(errors[i]) /\ Get(errors[i], field).kind = "list"
         /\ Len(Get(errors[i], field).msgs) > 0
    ELSE Len(errorsToArray(i)) > 0

----------------------------------------------------------------------------
(* Instances and rule sets of the engine's runs *)

Bad == StrV(<<"b", "a", "d">>)
Mail == StrV(<<"a", "@", "b", ".", "c", "o">>)
Avatar == BlobV(1, ImagePng)

NoOption == [present |-> TRUE, opt |-> [message |-> EmptyMsg]]
ImageOption ==
    [present |-> TRUE,
     opt |-> [messageOption |-> {}, minWidth |-> 1, maxWidth |-> 0, minHeight |-> 0,
              maxHeight |-> 0, size |-> Undefined, type |-> StrV(<<"b">>)]]

Rule(type) == [type |-> type, option |-> IF type = "image" THEN ImageOption ELSE NoOption]

NoRules == [present |-> FALSE, rules |-> <<>>]
RulesA ==
    [present |-> TRUE,
     rules |-> ("email" :> <<Rule("email")>>) @@ ("avatar" :> <<Rule("image"), Rule("custom")>>)]
RulesP ==
    [present |-> TRUE,
     rules |-> ("email" :> <<Rule("custom")>>) @@ ("other" :> <<Rule("email")>>)]

ModelA == <<[k |-> "email", v |-> Bad], [k |-> "avatar", v |-> Avatar]>>
ModelB == <<[k |-> "toString", v |-> Bad], [k |-> "email", v |-> Mail]>>

\* new Validator(model, option) for each instance
Constructed ==
    [i \in Insts |->
        CASE i = "A" -> [model |-> ModelA, validateOption |-> RulesA]
          [] i = "B" -> [model |-> ModelB, validateOption |-> NoRules]
          [] OTHER -> [model |-> <<>>, validateOption |-> RulesA]]

\* the instance whose setValidatorHandler the runs call; validate() is called
\* on every instance
Registrars == {"A"}

PassedOptions == {NoRules, RulesP}
RegisteredNames == {"custom", "email"}

\* no registration yet: a count, and per name who registered it and the
\* handler registered last
NoRegs == [n |-> 0, by |-> [name \in Names |-> {}], last |-> [name \in Names |-> "none"]]

InitEngine ==
    /\ validatorHandler = BuiltinTable
    /\ errors = [i \in Insts |-> <<>>]
    /\ insts = Constructed
    /\ calls = [c \in 1..MaxCalls |-> IdleCall]
    /\ regs = NoRegs
    /\ lastAssign = [i \in Insts |-> <<>>]

IdleEngine ==
    /\ validatorHandler = BuiltinTable
    /\ errors = [i \in Insts |-> <<>>]
    /\ insts = [i \in Insts |-> [model |-> <<>>, validateOption |-> NoRules]]
    /\ calls = [c \in 1..MaxCalls |-> IdleCall]
    /\ regs = NoRegs
    /\ lastAssign = [i \in Insts |-> <<>>]

IdleEmpty ==
    /\ emptyArg = Undefined
    /\ emptyRet = [done |-> FALSE, value |-> FALSE]

IdleImage ==
    /\ imageArg = [value |-> Undefined, option |-> [present |-> FALSE, opt |-> optionDefault],
                   w |-> 1, h |-> 1]
    /\ imageRet = [done |-> FALSE, result |-> Null, warnings |-> <<>>]

Init == InitEngine /\ IdleEmpty /\ IdleImage

Next ==
    \/ \E c \in CallIds, i \in Insts, options \in PassedOptions :
          Validate(c, i, options) /\ UNCHANGED <<emptyVars, imageVars>>
    \/ \E c \in CallIds : HandlerReturn(c) /\ UNCHANGED <<emptyVars, imageVars>>
    \/ \E c \in CallIds : FieldReturn(c) /\ UNCHANGED <<emptyVars, imageVars>>
    \/ \E i \in Registrars, name \in RegisteredNames, fn \in CustomFns :
          SetValidatorHandler(i, name, fn) /\ UNCHANGED <<emptyVars, imageVars>>

Spec == Init /\ [][Next]_vars

InitOverlap ==
    /\ validatorHandler = BuiltinTable
    /\ errors = [i \in Insts |-> <<>>]
    /\ insts = Constructed
    /\ calls = [c \in 1..OverlapCalls |-> IdleCall]
    /\ regs = NoRegs
    /\ lastAssign = [i \in Insts |-> <<>>]
    /\ IdleEmpty /\ IdleImage

SpecOverlap == InitOverlap /\ [][Next]_vars

InitE == IdleEngine /\ InitEmpty /\ IdleImage
NextE == CallIsEmpty /\ UNCHANGED <<engineVars, imageVars>>
SpecEmpty == InitE /\ [][NextE]_vars

InitI == IdleEngine /\ IdleEmpty /\ InitImage
NextI == CallImageValidator /\ UNCHANGED <<engineVars, emptyVars>>
SpecImage == InitI /\ [][NextI]_vars

----------------------------------------------------------------------------
(* Claims *)

\* the non-null lists of a mapping, flattened in field order
RECURSIVE FlattenLists(_)
FlattenLists(map) ==
    IF map = <<>> THEN <<>>
    ELSE (IF Head(map).v.kind = "list" THEN Head(map).v.msgs ELSE <<>>)
         \o FlattenLists(Tail(map))

HasErrors(map, f) ==
    f \in Keys(map) /\ Get(map, f).kind = "list" /\ Len(Get(map, f).msgs) > 0

\* C1: after the only validate() call made on an instance so far has resolved
\* with E, the instance's persisted errors are E: getErrors() equals E,
\* errorsToArray() is E's non-null lists flattened in field order, isValid(f)
\* is true exactly for the fields with a non-empty list in E, and isValid()
\* is true iff some field of E has one.
C1_PersistedErrorsEqualResult ==
    \A c \in CallIds :
        (/\ calls[c].pc = "resolved"
         /\ \A d \in CallIds \ {c} : calls[d].pc = "idle" \/ calls[d].inst # calls[c].inst)
        => LET i == calls[c].inst
               E == calls[c].errors
           IN /\ getErrors(i) = E
              /\ errorsToArray(i) = FlattenLists(E)
              /\ \A f \in Keys(E) : isValid(i, f) <=> HasErrors(E, f)
              /\ isValid(i, "") <=> \E f \in Keys(E) : HasErrors(E, f)

\* C2: no validate() call is ever rejected, whatever the model and the rule
\* set (the registered validator functions of the model never throw).
C2_NeverRejected ==
    \A c \in CallIds : calls[c].pc # "rejected"

\* C3: the keys of the mapping validate() resolves with are exactly the own
\* fields of the model that have an entry in the effective rule set, and only
\* values of such fields are passed to a validator.
C3_KeysAreRuledModelFields ==
    \A c \in CallIds :
        LET cs == calls[c]
            ruled == IF cs.opt.present
                     THEN {insts[cs.inst].model[n].k : n \in 1..Len(insts[cs.inst].model)}
                              \cap DOMAIN cs.opt.rules
                     ELSE {}
        IN /\ cs.pc = "resolved" => Keys(cs.errors) = ruled
           /\ cs.pc # "idle" => \A n \in 1..Len(cs.trace) : cs.trace[n].key \in ruled

\* null, or a list of at least one message, none of them empty
NullOrNonEmptyList(v) ==
    \/ v = Null
    \/ /\ v.kind = "list"
       /\ Len(v.msgs) >= 1
       /\ \A m \in 1..Len(v.msgs) : v.msgs[m] # EmptyMsg

\* C4: every value validateField() returns and every value validate()
\* records for a field is null or a list of at least one non-empty message.
C4_NullOrNonEmptyList ==
    \A c \in CallIds :
        /\ calls[c].pc = "awaitField" => NullOrNonEmptyList(calls[c].fres)
        /\ \A n \in 1..Len(calls[c].errors) : NullOrNonEmptyList(calls[c].errors[n].v)

\* C4 witness: a validator returned a list holding an empty string, and the
\* field was recorded with the list without it.
C4_Witness ==
    \E c \in CallIds :
        \E n \in 1..Len(calls[c].trace) :
            LET e == calls[c].trace[n]
            IN /\ e.ret = List(<<EmptyMsg, Msg("fnA")>>)
               /\ e.key \in Keys(calls[c].errors)
               /\ Get(calls[c].errors, e.key) = List(<<Msg("fnA")>>)

\* C5: a validate() call of an instance invokes a registered (non built-in)
\* handler for a name only if that name was registered on that same instance.
C5_RegistrationsStayOnInstance ==
    \A c \in CallIds :
        \A n \in 1..Len(calls[c].trace) :
            LET e == calls[c].trace[n]
            IN e.handler \in CustomFns => calls[c].inst \in regs.by[e.type]

\* C6 as stated: every validator a call invokes is the handler that was
\* registered for its name when the call reached the field it belongs to.
C6_HandlersFixedWhenFieldReached ==
    \A c \in CallIds :
        \A n \in 1..Len(calls[c].trace) :
            calls[c].trace[n].handler = calls[c].trace[n].atReach

\* the handler registered last for a name, else the built-in one
LastRegistered(name) ==
    IF regs.last[name] # "none" THEN regs.last[name] ELSE BuiltinTable[name]

\* C6 as amended: every validator a call invokes, in a call started after the
\* registration or already in flight, is the handler registered last for its
\* name at the moment of the invocation.
C6_HandlerIsLastRegisteredAtInvocation ==
    [][\A c \in CallIds :
          Len(calls'[c].trace) > Len(calls[c].trace)
          => LET e == calls'[c].trace[Len(calls'[c].trace)]
             IN e.handler = LastRegistered(e.type)]_vars

\* C6 witness: a call in flight invoked, for the field it was processing when
\* the registration happened, the newly registered handler.
C6_Witness ==
    \E c \in CallIds :
        \E n \in 1..Len(calls[c].trace) :
            LET e == calls[c].trace[n]
            IN /\ n > 1 /\ calls[c].trace[n - 1].key = e.key
               /\ e.handler \in CustomFns
               /\ e.handler # e.atReach

\* the dimension messages the bounds call for: a bound that is set and
\* violated gives its own message, in the order minWidth, maxWidth,
\* minHeight, maxHeight
ExpectedDimensionMessages(opt, w, h) ==
    (IF opt.minWidth # 0 /\ w < opt.minWidth
     THEN <<MessageOr(opt, "minWidth", "minWidth")>> ELSE <<>>)
    \o (IF opt.maxWidth # 0 /\ w > opt.maxWidth
        THEN <<MessageOr(opt, "maxWidth", "maxWidth")>> ELSE <<>>)
    \o (IF opt.minHeight # 0 /\ h < opt.minHeight
        THEN <<MessageOr(opt, "minHeight", "minHeight")>> ELSE <<>>)
    \o (IF opt.maxHeight # 0 /\ h > opt.maxHeight
        THEN <<MessageOr(opt, "maxHeight", "maxHeight")>> ELSE <<>>)

\* C7: for a blob, the result's dimension messages are exactly those of the
\* bounds that are set and violated (W < minWidth, W > maxWidth,
\* H < minHeight, H > maxHeight), each bound's own message, in that order.
C7_DimensionMessages ==
    (imageRet.done /\ imageArg.value.t = "blob")
    => LET opt == IF imageArg.option.present THEN imageArg.option.opt ELSE optionDefault
           IsDimension(m) == m.of \in {"minWidth", "maxWidth", "minHeight", "maxHeight"}
       IN SelectSeq(imageRet.result.msgs, IsDimension)
              = ExpectedDimensionMessages(opt, imageArg.w, imageArg.h)

\* C8: isEmpty(v) is true iff v is undefined, null, a NaN number, a string of
\* whitespace only, an array without a truthy element, a plain object with
\* no own key, or a blob of zero size or empty type.
C8_IsEmptyIff ==
    emptyRet.done
    => (emptyRet.value <=>
          LET v == emptyArg
          IN \/ v.t \in {"undefined", "null"}
             \/ v.t = "number" /\ v.nan
             \/ v.t = "string" /\ \A n \in 1..Len(v.s) : v.s[n] \in Whitespace
             \/ v.t = "array" /\ \A n \in 1..Len(v.e) : ~Truthy(v.e[n])
             \/ v.t = "object" /\ v.plain /\ Len(v.props) = 0
             \/ v.t = "blob" /\ (v.size = 0 \/ v.type = <<>>))

\* the (field, validator) pairs a call is to invoke, fields in the model's
\* order from index n on, validators in the field rule's order
RECURSIVE ExpectedInvocations(_, _, _)
ExpectedInvocations(model, opt, n) ==
    IF n > Len(model) THEN <<>>
    ELSE (IF model[n].k \in DOMAIN opt.rules
          THEN [t \in 1..Len(opt.rules[model[n].k]) |->
                   <<model[n].k, opt.rules[model[n].k][t].type>>]
          ELSE <<>>)
         \o ExpectedInvocations(model, opt, n + 1)

\* the messages the completed validators of a field returned, in the order
\* of their invocation
RECURSIVE ReturnedMessages(_, _)
ReturnedMessages(trace, key) ==
    IF trace = <<>> THEN <<>>
    ELSE (IF Head(trace).key = key /\ Head(trace).ret.kind \in {"str", "list"}
          THEN Head(trace).ret.msgs ELSE <<>>)
         \o ReturnedMessages(Tail(trace), key)

\* C9: within a validate() call at most one validator is in progress, a
\* validator is invoked only when all validators invoked before it have
\* completed, invocations follow the model's field order and then the field
\* rule's declaration order, and a field's messages are in invocation order.
C9_OneValidatorAtATime ==
    \A c \in CallIds :
        LET cs == calls[c]
            expected == ExpectedInvocations(insts[cs.inst].model, cs.opt, 1)
            NonEmpty(m) == m # EmptyMsg
        IN cs.pc # "idle" =>
           /\ Cardinality(cs.running) <= 1
           /\ \A n \in 1..(Len(cs.trace) - 1) : cs.trace[n].ret # Pending
           /\ Len(cs.trace) <= Len(expected)
           /\ \A n \in 1..Len(cs.trace) :
                 <<cs.trace[n].key, cs.trace[n].type>> = expected[n]
           /\ \A n \in 1..Len(cs.errors) :
                 cs.errors[n].v =
                     ListOrNull(SelectSeq(ReturnedMessages(cs.trace, cs.errors[n].k), NonEmpty))

\* C9 witness: a call resolved after three validators over two fields, the
\* second field with the messages of its two validators.
C9_Witness ==
    \E c \in CallIds :
        /\ calls[c].pc = "resolved"
        /\ Len(calls[c].trace) = 3
        /\ "avatar" \in Keys(calls[c].errors)
        /\ Len(Get(calls[c].errors, "avatar").msgs) >= 3
        /\ Get(calls[c].errors, "avatar").msgs[Len(Get(calls[c].errors, "avatar").msgs)]
               = Msg("fnA")

\* C10: once validate() calls have overlapped on an instance, the instance's
\* errors mapping holds, for every field either call assigned, the value of
\* the assignment that happened last.
C10_LastAssignmentWins ==
    \A c \in CallIds :
        calls[c].overlapped
        => LET i == calls[c].inst
           IN \A n \in 1..Len(lastAssign[i]) :
                 /\ lastAssign[i][n].k \in Keys(errors[i])
                 /\ Get(errors[i], lastAssign[i][n].k) = lastAssign[i][n].v
                 /\ Get(getErrors(i), lastAssign[i][n].k) = lastAssign[i][n].v

====
